---------------------------- MODULE Spec2Model ----------------------------
(***************************************************************************)
(* Model of the section extraction engine of src/regulations.py.          *)
(*                                                                         *)
(* Text is modelled as a sequence of one-character strings, so that the    *)
(* regular expressions, strip(), split('\n') and the substring test of     *)
(* the source are computed character by character.  A page is a record     *)
(* [text, spans]: text is what page.get_text() returns, spans is the flat  *)
(* list of the spans of page.get_text("dict") (the blocks/lines/spans     *)
(* nesting of the source is only iterated over), each span a record        *)
(* [text, flags].                                                          *)
(***************************************************************************)
EXTENDS Integers, Sequences, FiniteSets, TLC

VARIABLES
    pc,             \* position in the operation being run
    doc,            \* the document: a sequence of pages (index 0 is doc[1])
    toc,            \* doc.get_toc(): sequence of <<level, title, page>>
    expand_pages,   \* the page budget handed to extract_section_text
    doc_type,       \* result of detect_document_type
    sections,       \* the list of sections under construction / returned
    seen_headers,   \* the seen-set of the second pass
    idx,            \* loop position: toc entry or 0-based page number
    current_section,\* parse_ecar_sections: title of the open section
    current_text,   \* parse_ecar_sections: lines of the open section
    line,           \* is_valid_header under test: its line argument
    page,           \* is_valid_header under test: its page argument
    page_num,       \* is_valid_header under test: its page_num argument
    text,           \* parse_small_subsections under test: its argument
    result          \* return value of the function under test

vars == <<pc, doc, toc, expand_pages, doc_type, sections, seen_headers, idx,
          current_section, current_text, line, page, page_num, text, result>>

----------------------------------------------------------------------------
(* Characters and the str methods the source uses.                         *)

NL == "\n"

Digits == {"0", "1", "2", "3", "4", "5", "6", "7", "8", "9"}

LowerSeq == <<"a", "b", "c", "d", "e", "f", "g", "h", "i", "j", "k", "l", "m",
              "n", "o", "p", "q", "r", "s", "t", "u", "v", "w", "x", "y", "z">>

UpperSeq == <<"A", "B", "C", "D", "E", "F", "G", "H", "I", "J", "K", "L", "M",
              "N", "O", "P", "Q", "R", "S", "T", "U", "V", "W", "X", "Y", "Z">>

Lower == {LowerSeq[k] : k \in DOMAIN LowerSeq}

Upper == {UpperSeq[k] : k \in DOMAIN UpperSeq}

\* \s of the patterns and the characters str.strip() removes
Whitespace == {" ", "\t", "\n", "\r"}

IsDigit(c) == c \in Digits

IsAlpha(c) == c \in Lower \cup Upper

IsSpace(c) == c \in Whitespace

\* c.lower(), which is how re.IGNORECASE compares letters
LowerOf(c) ==
    IF c \in Upper
    THEN LowerSeq[CHOOSE k \in DOMAIN UpperSeq : UpperSeq[k] = c]
    ELSE c

\* first index >= i whose character is not in class S (Len(s)+1 if none):
\* the end of a greedy S* started at i
RECURSIVE SkipWhile(_, _, _)
SkipWhile(s, i, S) ==
    IF i <= Len(s) /\ s[i] \in S THEN SkipWhile(s, i + 1, S) ELSE i

\* last index <= i whose character is not whitespace (0 if none)
RECURSIVE SkipBack(_, _)
SkipBack(s, i) ==
    IF i >= 1 /\ IsSpace(s[i]) THEN SkipBack(s, i - 1) ELSE i

\* str.strip()
strip(s) == SubSeq(s, SkipWhile(s, 1, Whitespace), SkipBack(s, Len(s)))

\* index of the first "\n" of s at or after i (Len(s)+1 if none)
RECURSIVE FindNL(_, _)
FindNL(s, i) ==
    IF i <= Len(s) /\ s[i] # NL THEN FindNL(s, i + 1) ELSE i

\* str.split('\n')
RECURSIVE split(_)
split(s) ==
    LET k == FindNL(s, 1)
    IN IF k > Len(s) THEN <<s>>
       ELSE <<SubSeq(s, 1, k - 1)>> \o split(SubSeq(s, k + 1, Len(s)))

\* sub in s
Contains(sub, s) ==
    \E i \in 1..(Len(s) - Len(sub) + 1) : SubSeq(s, i, i + Len(sub) - 1) = sub

\* '\n'.join(ls)
RECURSIVE join(_)
join(ls) ==
    IF ls = <<>> THEN <<>>
    ELSE IF Len(ls) = 1 THEN ls[1]
    ELSE ls[1] \o <<NL>> \o join(Tail(ls))

----------------------------------------------------------------------------
(* get_valid_page_range and the patterns of the source.                    *)

ORG == <<"O", "R", "G">>
FLT == <<"F", "L", "T">>
DSP == <<"D", "S", "P">>
MNT == <<"M", "N", "T">>
CAB == <<"C", "A", "B">>
GRH == <<"G", "R", "H">>
CGO == <<"C", "G", "O">>
SEC == <<"S", "E", "C">>

\* the alternation (ORG|FLT|DSP|MNT|CAB|GRH|CGO|SEC), in the source's order
SectionTypes == <<ORG, FLT, DSP, MNT, CAB, GRH, CGO, SEC>>

Codes == {SectionTypes[k] : k \in DOMAIN SectionTypes}

\* the ranges dictionary; None (an unknown type) is <<>>
get_valid_page_range(section_type) ==
    CASE section_type = ORG -> <<52, 114>>
      [] section_type = FLT -> <<114, 299>>
      [] section_type = DSP -> <<299, 403>>
      [] section_type = MNT -> <<403, 490>>
      [] section_type = CAB -> <<490, 558>>
      [] section_type = GRH -> <<558, 620>>
      [] section_type = CGO -> <<620, 656>>
      [] section_type = SEC -> <<656, 700>>
      [] OTHER -> <<>>

\* \d+(?:\.\d+)*$ matched at index i of s: a greedy run of digits, then any
\* number of "." + digits groups, ending at the end of s ($ also matches
\* just before one final "\n")
RECURSIVE DottedIntsToEnd(_, _)
DottedIntsToEnd(s, i) ==
    LET j == SkipWhile(s, i, Digits)
    IN /\ j > i
       /\ \/ j = Len(s) + 1
          \/ j = Len(s) /\ s[j] = NL
          \/ /\ j <= Len(s)
             /\ s[j] = "."
             /\ DottedIntsToEnd(s, j + 1)

\* the header pattern without its final "$": CODE, optional whitespace and
\* digits at the start of s, whatever follows
header_pattern_Unanchored(s) ==
    /\ Len(s) >= 4
    /\ SubSeq(s, 1, 3) \in Codes
    /\ SkipWhile(s, SkipWhile(s, 4, Whitespace), Digits)
           > SkipWhile(s, 4, Whitespace)

\* re.match(r'^(ORG|FLT|DSP|MNT|CAB|GRH|CGO|SEC)\s*(\d+(?:\.\d+)*)$', s)
header_pattern(s) ==
    /\ Len(s) >= 4
    /\ SubSeq(s, 1, 3) \in Codes
    /\ DottedIntsToEnd(s, SkipWhile(s, 4, Whitespace))

\* index just after \d+\.\d+ matched at the start of s, 0 if it does not match
NumberPrefixEnd(s) ==
    LET j == SkipWhile(s, 1, Digits)
        k == SkipWhile(s, j + 1, Digits)
    IN IF j > 1 /\ j <= Len(s) /\ s[j] = "." /\ k > j + 1 THEN k ELSE 0

\* re.match(r'^\d+\.\d+\s+[A-Za-z]', s)
ecar_pattern(s) ==
    LET k == NumberPrefixEnd(s)
        m == SkipWhile(s, k, Whitespace)
    IN k > 0 /\ m > k /\ m <= Len(s) /\ IsAlpha(s[m])

\* re.match(r'^(\d+\.\d+)\s+(.+)$', s): after the number, one or more
\* whitespace characters, then one or more characters other than "\n" up to
\* the end of s (\s+ gives characters back to .+ when it has to)
section_pattern(s) ==
    LET k == NumberPrefixEnd(s)
        m == SkipWhile(s, k, Whitespace)
    IN /\ k > 0
       /\ \E r \in (k + 1)..m :
             /\ r <= Len(s)
             /\ \A q \in r..Len(s) : s[q] # NL

\* span.get("flags", 0) & 2**2
FlagTest(flags) == (flags \div 4) % 2 = 1

\* is_valid_header(line, page_text, line_index, lines, page, page_num);
\* page_text, line_index and lines are not read by the source
is_valid_header(ln, pg, pn) ==
    LET l == strip(ln)
        valid_range == get_valid_page_range(SubSeq(l, 1, 3))
    IN IF l = <<>> THEN FALSE
       ELSE IF ecar_pattern(l) THEN TRUE
       ELSE IF ~header_pattern(l) THEN FALSE
       ELSE IF valid_range = <<>>
               \/ ~(valid_range[1] <= pn + 1 /\ pn + 1 <= valid_range[2])
            THEN FALSE
       ELSE \E k \in DOMAIN pg.spans :
               /\ strip(pg.spans[k].text) = l
               /\ FlagTest(pg.spans[k].flags)

\* re.search(r'ECAR\s+Part', s, re.IGNORECASE)
EcarPartSearch(s) ==
    \E i \in 1..Len(s) :
       /\ i + 3 <= Len(s)
       /\ [k \in 1..4 |-> LowerOf(s[i + k - 1])] = <<"e", "c", "a", "r">>
       /\ LET m == SkipWhile(s, i + 4, Whitespace)
          IN /\ m > i + 4
             /\ m + 3 <= Len(s)
             /\ [k \in 1..4 |-> LowerOf(s[m + k - 1])] = <<"p", "a", "r", "t">>

\* detect_document_type(doc)
detect_document_type(d) ==
    LET first_page == d[1].text
    IN IF EcarPartSearch(first_page) THEN "ecar"
       ELSE IF \E c \in Codes : Contains(c, first_page) THEN "iosa"
       ELSE "other"

----------------------------------------------------------------------------
(* parse_small_subsections                                                 *)

\* [ivxlc]
RomanChars == {"i", "v", "x", "l", "c"}

\* end of a greedy (?:\.[0-9]+)* started at index j
RECURSIVE DottedTail(_, _)
DottedTail(s, j) ==
    IF j + 1 <= Len(s) /\ s[j] = "." /\ IsDigit(s[j + 1])
    THEN DottedTail(s, SkipWhile(s, j + 1, Digits))
    ELSE j

\* ([0-9]+(?:\.[0-9]+)*|[a-zA-Z]\)|[ivxlc]+) matched at index i: the index
\* just after the label, 0 if no alternative matches.  What follows the
\* group, \s*, matches anything, so the first alternative that matches is
\* the one taken, at its greedy length.
LabelEnd(s, i) ==
    IF i > Len(s) THEN 0
    ELSE IF IsDigit(s[i]) THEN DottedTail(s, SkipWhile(s, i, Digits))
    ELSE IF IsAlpha(s[i]) /\ i + 1 <= Len(s) /\ s[i + 1] = ")" THEN i + 2
    ELSE IF s[i] \in RomanChars THEN SkipWhile(s, i, RomanChars)
    ELSE 0

\* the pattern matched at index p: (?:^|\n) is the start of the text (and
\* only that: the pattern is compiled without re.MULTILINE) or one "\n".
\* The index where the label starts, 0 if the pattern does not match at p.
LabelStartAt(s, p) ==
    IF p = 1 /\ LabelEnd(s, 1) > 0 THEN 1
    ELSE IF p <= Len(s) /\ s[p] = NL /\ LabelEnd(s, p + 1) > 0 THEN p + 1
    ELSE 0

\* leftmost index >= p where the pattern matches, 0 if there is none
RECURSIVE SearchFrom(_, _)
SearchFrom(s, p) ==
    IF p > Len(s) THEN 0
    ELSE IF LabelStartAt(s, p) > 0 THEN p
    ELSE SearchFrom(s, p + 1)

\* re.split(pattern, text) continued at index pos: the text before each
\* match, then the match's group 1; the next search starts after the match,
\* which includes the whitespace \s* took
RECURSIVE re_split(_, _)
re_split(s, pos) ==
    LET p == SearchFrom(s, pos)
        ls == LabelStartAt(s, p)
        le == LabelEnd(s, ls)
    IN IF p = 0 THEN <<SubSeq(s, pos, Len(s))>>
       ELSE <<SubSeq(s, pos, p - 1), SubSeq(s, ls, le - 1)>>
            \o re_split(s, SkipWhile(s, le, Whitespace))

\* the loop "for i in range(1, len(matches), 2)", Python index i
RECURSIVE SubsectionLoop(_, _)
SubsectionLoop(matches, i) ==
    IF i >= Len(matches) THEN <<>>
    ELSE LET title == strip(matches[i + 1])
             content == IF i + 1 < Len(matches)
                        THEN strip(matches[i + 2]) ELSE <<>>
         IN (IF title # <<>>
             THEN <<[title |-> title, content |-> content]>> ELSE <<>>)
            \o SubsectionLoop(matches, i + 2)

\* parse_small_subsections(text)
parse_small_subsections(t) == SubsectionLoop(re_split(t, 1), 1)

----------------------------------------------------------------------------
(* extract_section_text                                                    *)

\* an inner loop that adds the stopping header line to the text it returns
RECURSIVE SectionTextLines_IncludesStop(_, _, _, _, _, _)
SectionTextLines_IncludesStop(lines, k, pg, pn, header, section_text) ==
    IF k > Len(lines) THEN [stop |-> FALSE, text |-> section_text]
    ELSE IF is_valid_header(lines[k], pg, pn) /\ ~Contains(header, lines[k])
    THEN [stop |-> TRUE, text |-> section_text \o lines[k] \o <<NL>>]
    ELSE SectionTextLines_IncludesStop(lines, k + 1, pg, pn, header,
                                       section_text \o lines[k] \o <<NL>>)

\* the inner loop over the lines of page pn, from line k on, with the text
\* gathered so far; "stop" says that the loop returned
RECURSIVE SectionTextLines(_, _, _, _, _, _)
SectionTextLines(lines, k, pg, pn, header, section_text) ==
    IF k > Len(lines) THEN [stop |-> FALSE, text |-> section_text]
    ELSE IF is_valid_header(lines[k], pg, pn) /\ ~Contains(header, lines[k])
    THEN [stop |-> TRUE, text |-> section_text]
    ELSE SectionTextLines(lines, k + 1, pg, pn, header,
                          section_text \o lines[k] \o <<NL>>)

\* the outer loop "for i in range(start_page, min(start_page + expand_pages,
\* len(doc)))", at 0-based page i
RECURSIVE SectionTextPages(_, _, _, _, _)
SectionTextPages(d, i, last, header, section_text) ==
    IF i >= last THEN strip(section_text)
    ELSE LET r == SectionTextLines(split(d[i + 1].text), 1, d[i + 1], i,
                                   header, section_text)
         IN IF r.stop THEN strip(r.text)
            ELSE SectionTextPages(d, i + 1, last, header, r.text)

Min(a, b) == IF a <= b THEN a ELSE b

\* extract_section_text(doc, start_page, header, expand_pages)
extract_section_text(d, start_page, header, budget) ==
    SectionTextPages(d, start_page, Min(start_page + budget, Len(d)),
                     header, <<>>)

----------------------------------------------------------------------------
(* parse_ecar_sections                                                     *)

\* the dictionary appended for a section that is closed while the loop
\* variable page_num is pn
EcarSection(title, pn, lines) ==
    [title |-> title,
     page |-> pn,
     text |-> join(lines),
     subsections |-> parse_small_subsections(join(lines))]

\* a parser that opens a section without emptying the gathered lines
EcarLine_KeepsText(st, ln, pn) ==
    LET l == strip(ln)
    IN IF l = <<>> THEN st
       ELSE IF section_pattern(l)
       THEN [sections |->
                IF st.current_section # <<>>
                THEN Append(st.sections,
                            EcarSection(st.current_section, pn,
                                        st.current_text))
                ELSE st.sections,
             current_section |-> l,
             current_text |-> st.current_text]
       ELSE [st EXCEPT !.current_text = Append(@, l)]

\* the body of "for line in lines" on the loop state st
\* [sections, current_section, current_text]; None is <<>>
EcarLine(st, ln, pn) ==
    LET l == strip(ln)
    IN IF l = <<>> THEN st
       ELSE IF section_pattern(l)
       THEN [sections |->
                IF st.current_section # <<>>
                THEN Append(st.sections,
                            EcarSection(st.current_section, pn,
                                        st.current_text))
                ELSE st.sections,
             current_section |-> l,
             current_text |-> <<>>]
       ELSE [st EXCEPT !.current_text = Append(@, l)]

\* the lines of one page, from line k on
RECURSIVE EcarLines(_, _, _, _)
EcarLines(st, lines, k, pn) ==
    IF k > Len(lines) THEN st
    ELSE EcarLines(EcarLine(st, lines[k], pn), lines, k + 1, pn)

\* the body of "for page_num in range(len(doc))" for page pn
EcarPageBody(st, d, pn) == EcarLines(st, split(d[pn + 1].text), 1, pn)

\* "Add last section": page_num is still the last page the loop visited
EcarLast(st, d) ==
    IF st.current_section # <<>>
    THEN Append(st.sections,
                EcarSection(st.current_section, Len(d) - 1, st.current_text))
    ELSE st.sections

----------------------------------------------------------------------------
(* sections.sort(key=lambda x: x['page'])                                  *)

\* a sort that puts an element before the elements of equal key
RECURSIVE InsertByPage_Unstable(_, _)
InsertByPage_Unstable(sorted, s) ==
    IF sorted = <<>> THEN <<s>>
    ELSE IF Head(sorted).page < s.page
    THEN <<Head(sorted)>> \o InsertByPage_Unstable(Tail(sorted), s)
    ELSE <<s>> \o sorted

\* s inserted into the sorted list after every element whose key is not
\* greater: list.sort is stable
RECURSIVE InsertByPage(_, _)
InsertByPage(sorted, s) ==
    IF sorted = <<>> THEN <<s>>
    ELSE IF Head(sorted).page <= s.page
    THEN <<Head(sorted)>> \o InsertByPage(Tail(sorted), s)
    ELSE <<s>> \o sorted

RECURSIVE SortFrom(_, _, _)
SortFrom(list, k, sorted) ==
    IF k > Len(list) THEN sorted
    ELSE SortFrom(list, k + 1, InsertByPage(sorted, list[k]))

sort_by_page(list) == SortFrom(list, 1, <<>>)

----------------------------------------------------------------------------
(* extract_toc_and_special_sections                                        *)

\* the dictionary the first pass appends for one outline entry
\* <<level, title, page>>
TocSection(d, toc_entry, budget) ==
    LET section_text == extract_section_text(d, toc_entry[3] - 1,
                                             toc_entry[2], budget)
    IN [title |-> toc_entry[2],
        level |-> toc_entry[1],
        page |-> toc_entry[3],
        text |-> section_text,
        subsections |-> parse_small_subsections(section_text)]

\* a second pass that does not consult the seen-set
ScanLine_NoSeenCheck(st, ln, d, pn, budget) ==
    LET header == strip(ln)
        section_text == extract_section_text(d, pn, header, budget)
    IN IF is_valid_header(ln, d[pn + 1], pn)
       THEN [sections |->
                Append(st.sections,
                       [title |-> header,
                        page |-> pn + 1,
                        text |-> section_text,
                        subsections |->
                            parse_small_subsections(section_text)]),
             seen_headers |-> st.seen_headers \cup {header}]
       ELSE st

\* the body of "for line_index, line in enumerate(lines)" of the second
\* pass on the loop state st [sections, seen_headers]
ScanLine(st, ln, d, pn, budget) ==
    LET header == strip(ln)
        section_text == extract_section_text(d, pn, header, budget)
    IN IF is_valid_header(ln, d[pn + 1], pn) /\ header \notin st.seen_headers
       THEN [sections |->
                Append(st.sections,
                       [title |-> header,
                        page |-> pn + 1,
                        text |-> section_text,
                        subsections |->
                            parse_small_subsections(section_text)]),
             seen_headers |-> st.seen_headers \cup {header}]
       ELSE st

\* the lines of one page, from line k on
RECURSIVE ScanLines(_, _, _, _, _, _)
ScanLines(st, lines, k, d, pn, budget) ==
    IF k > Len(lines) THEN st
    ELSE ScanLines(ScanLine(st, lines[k], d, pn, budget), lines, k + 1,
                   d, pn, budget)

\* the body of "for page_num in range(len(doc))" of the second pass
ScanPageBody(st, d, pn, budget) ==
    ScanLines(st, split(d[pn + 1].text), 1, d, pn, budget)

----------------------------------------------------------------------------
(* The documents the model runs on.                                        *)

\* number of pages of the coded / outline documents: enough for the first
\* pages of the ORG range (1-based 52..114) to exist
LongPages == 54

\* largest number of pages of a numeric-header document
MaxEcarPages == 3

\* page budgets tried besides the default of the source
SmallBudget == 2

\* expand_pages=8
DefaultBudget == 8

Budgets == {1, SmallBudget, DefaultBudget}

T_ORG_1 == ORG \o <<" ", "1">>
T_ORG_1_1 == ORG \o <<" ", "1", ".", "1">>
T_ORG_2 == ORG \o <<" ", "2">>
T_ORG_1_x == ORG \o <<" ", "1", " ", "x">>
T_ORG_1_padded == <<" ">> \o T_ORG_1 \o <<" ">>
T_FLT_2 == FLT \o <<" ", "2">>
T_45_1_T == <<"4", "5", ".", "1", " ", "T">>
T_45_2_U_padded == <<" ", "4", "5", ".", "2", " ", "U", " ">>
T_45_3_paren == <<"4", "5", ".", "3", " ", "(", "b", ")">>
T_body == <<"b", "o", "d", "y">>
T_a_x == <<"a", ")", " ", "x">>
T_i_y == <<"i", ")", " ", "y">>
T_Intro == <<"I", "n", "t", "r", "o">>
T_ECAR_Part == <<"E", "C", "A", "R", " ", "P", "a", "r", "t">>

\* the text of a page whose lines are ls: every line ends with "\n"
RECURSIVE TextOf(_)
TextOf(ls) == IF ls = <<>> THEN <<>> ELSE ls[1] \o <<NL>> \o TextOf(Tail(ls))

Span(t, flags) == [text |-> t, flags |-> flags]

MkPage(ls, spans) == [text |-> TextOf(ls), spans |-> spans]

Blank == MkPage(<<>>, <<>>)

\* span flags used: 0 (none), 4 (2**2), 16 (2**4), 20 (both)
FullPages ==
    { Blank,
      MkPage(<<T_ORG_1, T_body>>, <<Span(T_ORG_1, 20)>>),
      MkPage(<<T_ORG_1_1, T_a_x>>, <<Span(T_ORG_1_1, 4)>>),
      MkPage(<<T_45_1_T, T_body>>, <<>>),
      MkPage(<<T_ORG_1_padded, T_ORG_2, T_FLT_2, T_ORG_1>>,
             <<Span(T_ORG_1_padded, 20), Span(T_ORG_2, 16),
               Span(T_FLT_2, 20)>>),
      MkPage(<<T_body, T_ORG_1_x, T_ORG_2>>,
             <<Span(T_ORG_2, 0), Span(T_ORG_1_x, 20), Span(T_ORG_2, 20)>>) }

MidPages ==
    { Blank,
      MkPage(<<T_ORG_1, T_body>>, <<Span(T_ORG_1, 20)>>),
      MkPage(<<T_45_1_T, T_ORG_1_1>>, <<Span(T_ORG_1_1, 20)>>) }

LastPages ==
    { MkPage(<<T_body>>, <<>>),
      MkPage(<<T_ORG_2, T_i_y>>, <<Span(T_ORG_2, 4)>>) }

\* first pages: one that names a section code (with a bold "ORG 1" far
\* outside the ORG range), one that names none
Covers ==
    { MkPage(<<T_ORG_1, T_Intro>>, <<Span(T_ORG_1, 20)>>),
      MkPage(<<T_Intro>>, <<>>) }

\* a document of LongPages pages, blank except for its first page, the
\* pages 52 and 53 (1-based) and its last page
LongDoc(cover, p52, p53, last) ==
    [k \in 1..LongPages |->
        IF k = 1 THEN cover
        ELSE IF k = 52 THEN p52
        ELSE IF k = 53 THEN p53
        ELSE IF k = LongPages THEN last
        ELSE Blank]

LongDocs ==
    { LongDoc(c, a, b, l) :
        c \in Covers, a \in FullPages, b \in MidPages, l \in LastPages }

\* outlines, each entry <<level, title, page>> with a page of the document
Tocs ==
    { <<>>,
      << <<1, T_ORG_1, 52>> >>,
      << <<1, T_body, LongPages>>, <<1, T_Intro, 1>>, <<2, T_ORG_2, 53>>,
         <<2, T_ORG_1_1, 52>> >> }

EcarPages ==
    { Blank,
      MkPage(<<T_45_1_T, T_body, T_a_x>>, <<>>),
      MkPage(<<T_body, T_45_2_U_padded, <<>>, T_i_y>>, <<>>),
      MkPage(<<T_i_y, T_45_3_paren>>, <<>>) }

\* the first page of a numeric-header document names "ECAR Part"
EcarCover(pg) == [pg EXCEPT !.text = T_ECAR_Part \o <<NL>> \o @]

EcarDocs ==
    UNION { { [k \in 1..n |-> IF k = 1 THEN EcarCover(f[k]) ELSE f[k]] :
                f \in [1..n -> EcarPages] } : n \in 1..MaxEcarPages }

\* the arguments of a run: the document, its outline, the page budget
Inputs ==
    { [doc |-> d, toc |-> t, expand_pages |-> b] :
        d \in LongDocs, t \in Tocs, b \in Budgets }
    \cup { [doc |-> d, toc |-> <<>>, expand_pages |-> DefaultBudget] :
             d \in EcarDocs }

----------------------------------------------------------------------------
(* The run of extract_toc_and_special_sections.                            *)

\* values of the variables a specification does not use
None == <<>>

Init ==
    /\ \E in \in Inputs :
          /\ doc = in.doc
          /\ toc = in.toc
          /\ expand_pages = in.expand_pages
    /\ pc = "start"
    /\ doc_type = None
    /\ sections = <<>>
    /\ seen_headers = {}
    /\ idx = 0
    /\ current_section = None
    /\ current_text = <<>>
    /\ line = None
    /\ page = None
    /\ page_num = 0
    /\ text = None
    /\ result = None

\* doc_type = detect_document_type(doc), and the branch on it
Detect ==
    /\ pc = "start"
    /\ doc_type' = detect_document_type(doc)
    /\ pc' = IF doc_type' = "ecar" THEN "ecar" ELSE "toc"
    /\ UNCHANGED <<doc, toc, expand_pages, sections, seen_headers, idx,
                   current_section, current_text, line, page, page_num,
                   text, result>>

\* parse_ecar_sections: one iteration of the loop over the pages
EcarPage ==
    /\ pc = "ecar"
    /\ idx < Len(doc)
    /\ LET st == EcarPageBody([sections |-> sections,
                               current_section |-> current_section,
                               current_text |-> current_text], doc, idx)
       IN /\ sections' = st.sections
          /\ current_section' = st.current_section
          /\ current_text' = st.current_text
    /\ idx' = idx + 1
    /\ UNCHANGED <<pc, doc, toc, expand_pages, doc_type, seen_headers,
                   line, page, page_num, text, result>>

\* parse_ecar_sections: after the loop, the last section
EcarEnd ==
    /\ pc = "ecar"
    /\ idx = Len(doc)
    /\ sections' = EcarLast([sections |-> sections,
                             current_section |-> current_section,
                             current_text |-> current_text], doc)
    /\ pc' = "sort"
    /\ UNCHANGED <<doc, toc, expand_pages, doc_type, seen_headers, idx,
                   current_section, current_text, line, page, page_num,
                   text, result>>

\* first pass: one outline entry
TocEntry ==
    /\ pc = "toc"
    /\ idx < Len(toc)
    /\ sections' = Append(sections, TocSection(doc, toc[idx + 1],
                                               expand_pages))
    /\ idx' = idx + 1
    /\ UNCHANGED <<pc, doc, toc, expand_pages, doc_type, seen_headers,
                   current_section, current_text, line, page, page_num,
                   text, result>>

\* end of the first pass: seen_headers = set()
TocEnd ==
    /\ pc = "toc"
    /\ idx = Len(toc)
    /\ seen_headers' = {}
    /\ idx' = 0
    /\ pc' = "scan"
    /\ UNCHANGED <<doc, toc, expand_pages, doc_type, sections,
                   current_section, current_text, line, page, page_num,
                   text, result>>

\* second pass: one page
ScanPage ==
    /\ pc = "scan"
    /\ idx < Len(doc)
    /\ LET st == ScanPageBody([sections |-> sections,
                               seen_headers |-> seen_headers],
                              doc, idx, expand_pages)
       IN /\ sections' = st.sections
          /\ seen_headers' = st.seen_headers
    /\ idx' = idx + 1
    /\ UNCHANGED <<pc, doc, toc, expand_pages, doc_type, current_section,
                   current_text, line, page, page_num, text, result>>

\* end of the second pass
ScanEnd ==
    /\ pc = "scan"
    /\ idx = Len(doc)
    /\ pc' = "sort"
    /\ UNCHANGED <<doc, toc, expand_pages, doc_type, sections, seen_headers,
                   idx, current_section, current_text, line, page, page_num,
                   text, result>>

\* sections.sort(key=lambda x: x['page']); return sections
Sort ==
    /\ pc = "sort"
    /\ sections' = sort_by_page(sections)
    /\ result' = sections'
    /\ pc' = "done"
    /\ UNCHANGED <<doc, toc, expand_pages, doc_type, seen_headers, idx,
                   current_section, current_text, line, page, page_num,
                   text>>

Next ==
    \/ Detect
    \/ EcarPage
    \/ EcarEnd
    \/ TocEntry
    \/ TocEnd
    \/ ScanPage
    \/ ScanEnd
    \/ Sort

Spec == Init /\ [][Next]_vars

----------------------------------------------------------------------------
(* Properties of the run.  They are stated over the document itself, by    *)
(* positions <<pn, k>> (0-based page, 1-based line of the page), and not   *)
(* through the loops above.                                                *)

LinesOf(d, pn) == split(d[pn + 1].text)

LineAt(d, pos) == LinesOf(d, pos[1])[pos[2]]

PositionsOf(d, pages) ==
    UNION { { <<pn, k>> : k \in 1..Len(LinesOf(d, pn)) } : pn \in pages }

Before(a, b) == a[1] < b[1] \/ (a[1] = b[1] /\ a[2] < b[2])

\* the earliest position of a non-empty set of positions
First(P) == CHOOSE a \in P : \A b \in P : b = a \/ Before(a, b)

IsOutlineSection(s) == "level" \in DOMAIN s

ScanSections(list) ==
    SelectSeq(list, LAMBDA s : ~IsOutlineSection(s))

IsSorted(list) ==
    \A i \in 1..(Len(list) - 1) : list[i].page <= list[i + 1].page

\* new holds the elements of old, those of equal page in the order of old
KeepsDiscoveryOrder(new, old) ==
    /\ Len(new) = Len(old)
    /\ \A p \in {old[k].page : k \in DOMAIN old} :
          SelectSeq(new, LAMBDA s : s.page = p)
              = SelectSeq(old, LAMBDA s : s.page = p)

OutlineBeforeScan(list) ==
    \A i, j \in DOMAIN list :
       i < j /\ list[i].page = list[j].page /\ IsOutlineSection(list[j])
           => IsOutlineSection(list[i])

\* C1: the returned list is sorted ascending by page, and sections of equal
\* page keep their discovery order (the order of the list before the sort,
\* outline-derived sections before scan-derived ones).
C1_SortedStable ==
    [][pc = "sort" =>
          /\ IsSorted(sections')
          /\ KeepsDiscoveryOrder(sections', sections)
          /\ OutlineBeforeScan(sections')
          /\ result' = sections']_vars

\* C1 witness: a returned list whose outline was not in page order and in
\* which an outline section and a scan section, and two scan sections,
\* share a page.
C1_Witness ==
    /\ pc = "done"
    /\ Len(toc) >= 2
    /\ toc[1][3] > toc[2][3]
    /\ \E i, j, k \in DOMAIN result :
          /\ i < j /\ j < k
          /\ result[i].page = result[j].page
          /\ result[j].page = result[k].page
          /\ IsOutlineSection(result[i])
          /\ ~IsOutlineSection(result[j])
          /\ ~IsOutlineSection(result[k])

\* the 0-based pages extract_section_text may read
BudgetPages(d, start_page, budget) ==
    start_page..(Min(start_page + budget, Len(d)) - 1)

\* the positions in the budget whose line validates as a header and does
\* not contain the header text
StopPositions(d, start_page, header, budget) ==
    { pos \in PositionsOf(d, BudgetPages(d, start_page, budget)) :
         /\ is_valid_header(LineAt(d, pos), d[pos[1] + 1], pos[1])
         /\ ~Contains(header, LineAt(d, pos)) }

\* the whole text of the 0-based pages from..to, every line with its "\n"
RECURSIVE PagesText(_, _, _)
PagesText(d, from, to) ==
    IF from > to THEN <<>>
    ELSE TextOf(LinesOf(d, from)) \o PagesText(d, from + 1, to)

\* the text the claim describes: all lines strictly before the first stop
\* position, or all lines of the budget if there is none, trimmed
BodyBeforeStop(d, start_page, header, budget) ==
    LET stops == StopPositions(d, start_page, header, budget)
        stop == First(stops)
    IN IF stops = {}
       THEN strip(PagesText(d, start_page,
                            Min(start_page + budget, Len(d)) - 1))
       ELSE strip(PagesText(d, start_page, stop[1] - 1)
                  \o TextOf(SubSeq(LinesOf(d, stop[1]), 1, stop[2] - 1)))

\* C4: the text of every section built by extract_section_text (outline and
\* scan sections, which start at 0-based page "page - 1" with their title
\* as header text) is the trimmed concatenation of the lines strictly
\* before the first line, within the page budget and the document, that
\* validates as a header and does not contain the title; all lines of the
\* budget if there is no such line.
C4_BodyStopsBeforeNextHeader ==
    pc = "done" /\ doc_type # "ecar" =>
        \A k \in DOMAIN result :
           result[k].text = BodyBeforeStop(doc, result[k].page - 1,
                                           result[k].title, expand_pages)

\* C4 witness: a returned section whose scan stopped at a header on a later
\* page than its start page, with a non-empty text, and another one whose
\* scan ran to the end of the document without meeting a header.
C4_Witness ==
    /\ pc = "done"
    /\ doc_type # "ecar"
    /\ \E k \in DOMAIN result :
          LET stops == StopPositions(doc, result[k].page - 1,
                                     result[k].title, expand_pages)
          IN /\ stops # {}
             /\ First(stops)[1] > result[k].page - 1
             /\ result[k].text # <<>>
    /\ \E k \in DOMAIN result :
          /\ StopPositions(doc, result[k].page - 1, result[k].title,
                           expand_pages) = {}
          /\ result[k].page - 1 + expand_pages > Len(doc)
          /\ result[k].text # <<>>

\* the positions of the document whose line the validator accepts with
\* trimmed text h
AcceptedPositions(d, h) ==
    { pos \in PositionsOf(d, 0..(Len(d) - 1)) :
         /\ strip(LineAt(d, pos)) = h
         /\ is_valid_header(LineAt(d, pos), d[pos[1] + 1], pos[1]) }

\* the header texts accepted on two or more lines of the document
RepeatedHeaders(d) ==
    { h \in { strip(LineAt(d, pos)) : pos \in PositionsOf(d, 0..(Len(d) - 1)) } :
         Cardinality(AcceptedPositions(d, h)) >= 2 }

WithTitle(list, h) == SelectSeq(list, LAMBDA s : s.title = h)

\* C5 as claimed: a header text accepted on two or more lines yields exactly
\* one section with that title in the whole output, at the 1-based page of
\* its first occurrence.
C5_AsClaimed ==
    pc = "done" /\ doc_type # "ecar" =>
        \A h \in RepeatedHeaders(doc) :
           /\ Len(WithTitle(result, h)) = 1
           /\ WithTitle(result, h)[1].page
                  = First(AcceptedPositions(doc, h))[1] + 1

\* C5 amended: a header text accepted on two or more lines yields exactly
\* one scan-derived section with that title, at the 1-based page of its
\* first occurrence; outline-derived sections of the same title are not
\* de-duplicated against it.
C5_OneScanSectionPerHeader ==
    pc = "done" /\ doc_type # "ecar" =>
        \A h \in RepeatedHeaders(doc) :
           /\ Len(WithTitle(ScanSections(result), h)) = 1
           /\ WithTitle(ScanSections(result), h)[1].page
                  = First(AcceptedPositions(doc, h))[1] + 1

\* C5 witness: a header text accepted on two different pages, which is also
\* the title of an outline entry.
C5_Witness ==
    /\ pc = "done"
    /\ doc_type # "ecar"
    /\ \E h \in RepeatedHeaders(doc) :
          /\ \E a, b \in AcceptedPositions(doc, h) : a[1] # b[1]
          /\ \E k \in DOMAIN toc : toc[k][2] = h

\* C7 as claimed: every returned section has a 1-based page number within
\* the document.
C7_AsClaimed ==
    pc = "done" =>
        \A k \in DOMAIN result :
           1 <= result[k].page /\ result[k].page <= Len(doc)

\* CODE, optional whitespace, dot-separated integers and nothing else
IsCodedHeaderText(t) ==
    /\ Len(t) >= 4
    /\ SubSeq(t, 1, 3) \in Codes
    /\ \E i \in 4..Len(t) :
          /\ \A q \in 4..(i - 1) : IsSpace(t[q])
          /\ \A q \in i..Len(t) : IsDigit(t[q]) \/ t[q] = "."
          /\ IsDigit(t[i])
          /\ IsDigit(t[Len(t)])
          /\ \A q \in i..(Len(t) - 1) : ~(t[q] = "." /\ t[q + 1] = ".")

\* integer "." integer, whitespace, a letter, then anything
IsNumericHeaderText(t) ==
    \E j, k, m \in 1..Len(t) :
       /\ 1 < j /\ j + 1 < k /\ k < m
       /\ \A q \in 1..(j - 1) : IsDigit(t[q])
       /\ t[j] = "."
       /\ \A q \in (j + 1)..(k - 1) : IsDigit(t[q])
       /\ \A q \in k..(m - 1) : IsSpace(t[q])
       /\ IsAlpha(t[m])

\* C8 as claimed: in a document classified "iosa" every header the scan
\* accepts is CODE + numeric path and nothing else.
C8_AsClaimed ==
    pc = "done" /\ doc_type = "iosa" =>
        \A k \in DOMAIN result :
           ~IsOutlineSection(result[k]) => IsCodedHeaderText(result[k].title)

\* C8 amended: in a document classified "iosa" every header the scan accepts
\* is either CODE + numeric path and nothing else (on a page of the code's
\* range), or a line that starts with integer "." integer, whitespace and a
\* letter; the validator does not depend on the dialect.
C8_CodedOrNumericHeadersOnly ==
    pc = "done" /\ doc_type = "iosa" =>
        \A k \in DOMAIN result :
           ~IsOutlineSection(result[k]) =>
              \/ /\ IsCodedHeaderText(result[k].title)
                 /\ LET r == get_valid_page_range(SubSeq(result[k].title, 1, 3))
                    IN r[1] <= result[k].page /\ result[k].page <= r[2]
              \/ IsNumericHeaderText(result[k].title)

\* C8 witness: a document classified "iosa" in which the scan produced a
\* section for the line "45.1 T" and one for a coded header, while a line
\* "ORG 1 x" with a matching span was passed over.
C8_Witness ==
    /\ pc = "done"
    /\ doc_type = "iosa"
    /\ \E k \in DOMAIN result :
          ~IsOutlineSection(result[k]) /\ result[k].title = T_45_1_T
    /\ \E k \in DOMAIN result :
          ~IsOutlineSection(result[k]) /\ result[k].title = T_ORG_2
    /\ \E pos \in PositionsOf(doc, 0..(Len(doc) - 1)) :
          LineAt(doc, pos) = T_ORG_1_x

\* the non-empty trimmed lines of the document from 0-based page pn on, in
\* document order, each with the page it is on
RECURSIVE DocLines(_, _)
DocLines(d, pn) ==
    IF pn >= Len(d) THEN <<>>
    ELSE LET ls == LinesOf(d, pn)
         IN SelectSeq([k \in DOMAIN ls |-> [ln |-> strip(ls[k]), pn |-> pn]],
                      LAMBDA e : e.ln # <<>>)
            \o DocLines(d, pn + 1)

\* the indices of DocLines that match the numeric-header pattern
HeaderIndices(F) == { i \in DOMAIN F : section_pattern(F[i].ln) }

\* the k-th of them
NthHeader(F, k) ==
    CHOOSE i \in HeaderIndices(F) :
       Cardinality({ j \in HeaderIndices(F) : j < i }) = k - 1

\* the index of the header after the k-th, Len(F) + 1 after the last
HeaderAfter(F, k) ==
    IF k < Cardinality(HeaderIndices(F)) THEN NthHeader(F, k + 1)
    ELSE Len(F) + 1

LinesBetween(F, from, to) ==
    [k \in 1..(to - from - 1) |-> F[from + k].ln]

\* C9 as claimed: every section of the numeric-header parser records the
\* page on which its own title line was found (read here as either the
\* 0-based or the 1-based number of that page).
C9_AsClaimed ==
    pc \in {"sort", "done"} /\ doc_type = "ecar" =>
        LET F == DocLines(doc, 0)
        IN \A k \in DOMAIN sections :
              k <= Cardinality(HeaderIndices(F)) =>
                 sections[k].page \in { F[NthHeader(F, k)].pn,
                                        F[NthHeader(F, k)].pn + 1 }

\* C10: the numeric-header parser emits one section per line that matches
\* the numeric-header pattern, in document order, titled with that
\* (trimmed) line; its text is the non-empty lines strictly between its
\* header and the next header (or the end of the document), joined by
\* "\n".  So no line is in two sections and the lines before the first
\* header are in none.
C10_OneSectionPerHeader ==
    pc \in {"sort", "done"} /\ doc_type = "ecar" =>
        LET F == DocLines(doc, 0)
        IN /\ Len(sections) = Cardinality(HeaderIndices(F))
           /\ \A k \in DOMAIN sections :
                 /\ sections[k].title = F[NthHeader(F, k)].ln
                 /\ sections[k].text
                        = join(LinesBetween(F, NthHeader(F, k),
                                            HeaderAfter(F, k)))

\* C10 witness: a numeric-header document parsed into three or more
\* sections, one of them with an empty text and one whose text holds lines
\* of two pages.
C10_Witness ==
    /\ pc = "done"
    /\ doc_type = "ecar"
    /\ Len(result) >= 3
    /\ \E k \in DOMAIN result : result[k].text = <<>>
    /\ LET F == DocLines(doc, 0)
       IN \E k \in DOMAIN result :
             \E i, j \in (NthHeader(F, k) + 1)..(HeaderAfter(F, k) - 1) :
                F[i].pn # F[j].pn

----------------------------------------------------------------------------
(* is_valid_header on its own: one call on a line, a page and a page       *)
(* number.                                                                 *)

\* largest number of spans of the page
MaxSpans == 2

\* span flags tried.  PyMuPDF's span flags are a bit set: 2**0 superscript,
\* 2**1 italic, 2**2 serifed, 2**3 monospaced, 2**4 bold; so 0 is a plain
\* sans-serif run, 4 a serifed one, 16 a bold sans-serif one, 20 a bold
\* serifed one.
SpanFlags == {0, 4, 16, 20}

\* whether a run with these flags is bold (PyMuPDF: bit 2**4)
IsBoldFlags(flags) == (flags \div 16) % 2 = 1

HeaderLines ==
    { c \o <<" ", "1", ".", "2">> : c \in Codes }
    \cup { T_ORG_1, T_ORG_1_padded, ORG \o <<"1">>, T_ORG_1_x,
           ORG \o <<" ", "1", ".">>, ORG, T_45_1_T, T_45_3_paren, T_body,
           <<>>, <<"X", "Y", "Z", " ", "1">> }

\* 0-based page numbers around the two ends of every configured range
HeaderPageNums ==
    UNION { { get_valid_page_range(c)[1] - 2, get_valid_page_range(c)[1] - 1,
              get_valid_page_range(c)[2] - 1, get_valid_page_range(c)[2] } :
            c \in Codes }
    \cup {0, 9, 59}

\* the spans tried for a line: its text, its text between spaces, and
\* another text, under every flag value
SpansFor(ln) ==
    LET choices == { Span(t, f) : t \in {ln, <<" ">> \o ln \o <<" ">>},
                                  f \in SpanFlags }
                   \cup { Span(T_body, 20) }
    IN UNION { [1..n -> choices] : n \in 0..MaxSpans }

InitHeader ==
    /\ line \in HeaderLines
    /\ page_num \in HeaderPageNums
    /\ \E sp \in SpansFor(line) :
          page = [text |-> TextOf(<<line>>), spans |-> sp]
    /\ pc = "header"
    /\ result = None
    /\ doc = None
    /\ toc = None
    /\ expand_pages = 0
    /\ doc_type = None
    /\ sections = <<>>
    /\ seen_headers = {}
    /\ idx = 0
    /\ current_section = None
    /\ current_text = <<>>
    /\ text = None

\* result = is_valid_header(line, ..., page, page_num)
CallIsValidHeader ==
    /\ pc = "header"
    /\ result' = is_valid_header(line, page, page_num)
    /\ pc' = "header_done"
    /\ UNCHANGED <<doc, toc, expand_pages, doc_type, sections, seen_headers,
                   idx, current_section, current_text, line, page, page_num,
                   text>>

NextHeader == CallIsValidHeader

SpecHeader == InitHeader /\ [][NextHeader]_vars

InsideRange(ln, pn) ==
    LET r == get_valid_page_range(SubSeq(strip(ln), 1, 3))
    IN r[1] <= pn + 1 /\ pn + 1 <= r[2]

\* a run of the page whose trimmed text is the trimmed line and which is bold
HasBoldRun(ln, pg) ==
    \E k \in DOMAIN pg.spans :
       /\ strip(pg.spans[k].text) = strip(ln)
       /\ IsBoldFlags(pg.spans[k].flags)

\* C2 as claimed: a CODE + dotted-integers line is rejected whenever the
\* 1-based page number is outside the code's range, and accepted when it is
\* inside the range (bounds included) and the page has a bold run with the
\* same text.
C2_AsClaimed ==
    pc = "header_done" /\ IsCodedHeaderText(strip(line)) =>
        /\ ~InsideRange(line, page_num) => result = FALSE
        /\ InsideRange(line, page_num) /\ HasBoldRun(line, page)
               => result = TRUE

\* C3 as claimed: a CODE + dotted-integers line on a page inside the code's
\* range is accepted only if the page has a run with the same trimmed text
\* whose bold flag is set.
C3_AsClaimed ==
    pc = "header_done" /\ IsCodedHeaderText(strip(line))
        /\ InsideRange(line, page_num) /\ result = TRUE
    => HasBoldRun(line, page)

----------------------------------------------------------------------------
(* parse_small_subsections on its own: one call on a text.                 *)

\* largest length of the text
MaxTextLen == 5

SubsectionChars == {"1", ".", "a", "i", ")", " ", NL}

\* "1. Intro text\n1.1 Detail a\n1.2 Detail b"
T_Intro_text == <<"I", "n", "t", "r", "o", " ", "t", "e", "x", "t">>
T_Detail_a == <<"D", "e", "t", "a", "i", "l", " ", "a">>
T_Detail_b == <<"D", "e", "t", "a", "i", "l", " ", "b">>

ExampleText ==
    <<"1", ".", " ">> \o T_Intro_text \o <<NL>>
    \o <<"1", ".", "1", " ">> \o T_Detail_a \o <<NL>>
    \o <<"1", ".", "2", " ">> \o T_Detail_b

SubsectionTexts ==
    UNION { [1..n -> SubsectionChars] : n \in 0..MaxTextLen }
    \cup { ExampleText }

InitSubsections ==
    /\ text \in SubsectionTexts
    /\ pc = "subsections"
    /\ result = None
    /\ doc = None
    /\ toc = None
    /\ expand_pages = 0
    /\ doc_type = None
    /\ sections = <<>>
    /\ seen_headers = {}
    /\ idx = 0
    /\ current_section = None
    /\ current_text = <<>>
    /\ line = None
    /\ page = None
    /\ page_num = 0

\* result = parse_small_subsections(text)
CallParseSmallSubsections ==
    /\ pc = "subsections"
    /\ result' = parse_small_subsections(text)
    /\ pc' = "subsections_done"
    /\ UNCHANGED <<doc, toc, expand_pages, doc_type, sections, seen_headers,
                   idx, current_section, current_text, line, page, page_num,
                   text>>

NextSubsections == CallParseSmallSubsections

SpecSubsections == InitSubsections /\ [][NextSubsections]_vars

\* a line that begins with a label: a digit (a dotted integer sequence), a
\* letter followed by ")", or a lowercase roman-numeral letter
BeginsWithLabel(ln) ==
    /\ Len(ln) >= 1
    /\ \/ IsDigit(ln[1])
       \/ IsAlpha(ln[1]) /\ Len(ln) >= 2 /\ ln[2] = ")"
       \/ ln[1] \in RomanChars

\* C6 as claimed: one subsection per line that begins with a label, and the
\* example text yields the labels 1, 1.1, 1.2 with the contents
\* "Intro text", "Detail a", "Detail b".
C6_AsClaimed ==
    pc = "subsections_done" =>
        /\ Len(result)
               = Cardinality({ k \in DOMAIN split(text) :
                                  BeginsWithLabel(split(text)[k]) })
        /\ text = ExampleText =>
               result = << [title |-> <<"1">>, content |-> T_Intro_text],
                           [title |-> <<"1", ".", "1">>,
                            content |-> T_Detail_a],
                           [title |-> <<"1", ".", "2">>,
                            content |-> T_Detail_b] >>

============================================================================
